---- MODULE Spec2Model ----
(***************************************************************************)
(* Model of the NFTMarketplace ledger (src/utils/contract.sol).            *)
(*                                                                         *)
(* The contract storage, the ERC721 owner table, the ether balances and    *)
(* the event log are the state.  Every public function of the contract is  *)
(* an operator from (state, msg.sender, msg.value, arguments) to a result  *)
(* [st, err, nested]; a failed require reverts to the state at entry.      *)
(* Amounts are in milli-ether, so 0.025 ether is 25.                        *)
(***************************************************************************)
EXTENDS Integers, Sequences, FiniteSets, TLC

(* ------------------------------ bounds --------------------------------- *)
MaxTokens == 2
MaxTx == 3
MaxTxDeep == 4
InitialFunds == 2000

(* ----------------------------- addresses ------------------------------- *)
ZERO == "0x0"
THIS == "this"
contractOwner == "deployer"
Users == {"alice", "bob"}
Accounts == Users \cup {contractOwner}
Addresses == Accounts \cup {THIS}
TokenIds == 1..MaxTokens

InitialListingPrice == 25
Prices == {0, 1000}
NewPrices == {0, 25}
Fees == {0, 25}
Values == {0, 25, 1000}
Recipients == {"bob", THIS, ZERO}

NOT_ENTERED == 1
ENTERED == 2

VARIABLES tokenIds, itemsSold, listingPrice, idToMarketItem, owners,
          balance, status, events, last, txCount

vars == <<tokenIds, itemsSold, listingPrice, idToMarketItem, owners,
          balance, status, events, last, txCount>>

(* The zero-valued MarketItem a mapping holds for a key never written. *)
ZeroItem ==
    [tokenId |-> 0, seller |-> ZERO, owner |-> ZERO, price |-> 0,
     sold |-> FALSE, listed |-> FALSE]

MarketItem(tokenId, seller, owner, price, sold, listed) ==
    [tokenId |-> tokenId, seller |-> seller, owner |-> owner,
     price |-> price, sold |-> sold, listed |-> listed]

(* The chain state as one record, so that an operation is a function. *)
Chain ==
    [tokenIds |-> tokenIds, itemsSold |-> itemsSold,
     listingPrice |-> listingPrice, idToMarketItem |-> idToMarketItem,
     owners |-> owners, balance |-> balance, status |-> status,
     events |-> events]

(* ------------------------- results and errors -------------------------- *)
OK == "ok"
NoNested == << >>

Success(s, nested) == [st |-> s, err |-> OK, nested |-> nested, ret |-> 0]

(* A revert discards every write of the call, the received value included. *)
Revert(entry, reason) ==
    [st |-> entry, err |-> reason, nested |-> NoNested, ret |-> 0]

E_PRICE == "Price must be at least 1 wei"
E_FEE == "Price must be equal to listing price"
E_NOT_OWNER == "Only item owner can perform this operation"
E_LISTED == "Item is already listed"
E_DELIST_SELLER == "Only seller can delist item"
E_NOT_LISTED == "Item is not listed"
E_SOLD == "Item is already sold"
E_ASKING == "Please submit the asking price in order to complete the purchase"
E_NOT_FOR_SALE == "Item is not listed for sale"
E_OWN_ITEM == "You cannot buy your own item"
E_UPDATE_SELLER == "Only seller can update price"
E_NO_FUNDS == "No funds to withdraw"
E_WITHDRAW == "Withdrawal failed"
E_NOT_ESCROW == "Token not owned by contract"
E_OWNABLE == "OwnableUnauthorizedAccount"
E_REENTRANT == "ReentrancyGuardReentrantCall"
E_NONEXISTENT == "ERC721NonexistentToken"
E_INCORRECT_OWNER == "ERC721IncorrectOwner"
E_INVALID_RECEIVER == "ERC721InvalidReceiver"
E_TRANSFER == "transfer failed"
E_OUT_OF_GAS == "out of gas"

(* The error taxonomy of the ledger applied to the contract's reverts. *)
ErrKind(e) ==
    CASE e \in {E_PRICE, E_FEE, E_ASKING, E_INVALID_RECEIVER}
              -> "ValidationError"
      [] e \in {E_NOT_OWNER, E_DELIST_SELLER, E_OWN_ITEM, E_UPDATE_SELLER,
                E_OWNABLE} -> "AuthorizationError"
      [] e \in {E_LISTED, E_NOT_LISTED, E_SOLD, E_NOT_FOR_SALE, E_REENTRANT,
                E_NOT_ESCROW, E_NO_FUNDS, E_NONEXISTENT} -> "StateError"
      [] e \in {E_TRANSFER, E_WITHDRAW, E_INCORRECT_OWNER, E_OUT_OF_GAS}
              -> "TransferError"
      [] OTHER -> "none"

(* ------------------------------ calls ---------------------------------- *)
(* A call into the ledger: the function, msg.sender, msg.value, arguments. *)
Call(op, sender, value, tokenId, price, to) ==
    [op |-> op, sender |-> sender, value |-> value, tokenId |-> tokenId,
     price |-> price, to |-> to]

(* What the recipient of ether does when it is paid: nothing, refuse the   *)
(* payment, or call back into the ledger once (ignoring that call's        *)
(* failure).                                                               *)
NoHook == [kind |-> "none"]
RejectHook(who) == [kind |-> "reject", who |-> who]
CallHook(who, c) == [kind |-> "call", who |-> who, call |-> c]

RECURSIVE Dispatch(_, _, _)

Receive_burns(s, sender, value) ==
    [s EXCEPT !.balance[sender] = @ - value]

(* msg.value arrives in the contract's balance before the body runs. *)
Receive(s, sender, value) ==
    [s EXCEPT !.balance[sender] = @ - value, !.balance[THIS] = @ + value]

TransferToken_noMove(s, from, to, tokenId) ==
    IF to = ZERO THEN [ok |-> FALSE, st |-> s, err |-> E_INVALID_RECEIVER]
    ELSE IF s.owners[tokenId] = ZERO
         THEN [ok |-> FALSE, st |-> s, err |-> E_NONEXISTENT]
         ELSE [ok |-> TRUE, st |-> s, err |-> OK]

(* ERC721._transfer: moves the token, refusing the zero address as        *)
(* receiver and checking the previous owner.                               *)
TransferToken(s, from, to, tokenId) ==
    IF to = ZERO THEN [ok |-> FALSE, st |-> s, err |-> E_INVALID_RECEIVER]
    ELSE IF s.owners[tokenId] = ZERO THEN [ok |-> FALSE, st |-> s, err |-> E_NONEXISTENT]
    ELSE IF s.owners[tokenId] # from
         THEN [ok |-> FALSE, st |-> s, err |-> E_INCORRECT_OWNER]
         ELSE [ok |-> TRUE, st |-> [s EXCEPT !.owners[tokenId] = to], err |-> OK]

Send_overdraw(s, to, amount, hook, stipend, inFlight) ==
    [ok |-> TRUE,
     st |-> [s EXCEPT !.balance[THIS] = @ - amount, !.balance[to] = @ + amount],
     nested |-> NoNested]

(* An ether payment from the contract to `to`.  `stipend` is TRUE for      *)
(* address.transfer (2300 gas forwarded) and FALSE for call{value:..}("")  *)
(* (all gas forwarded).  The recipient's hook runs after the credit.       *)
Send(s, to, amount, hook, stipend, inFlight) ==
    IF s.balance[THIS] < amount
    THEN [ok |-> FALSE, st |-> s, nested |-> NoNested]
    ELSE LET paid == [s EXCEPT !.balance[THIS] = @ - amount,
                               !.balance[to] = @ + amount]
         IN  IF hook.kind = "none" \/ hook.who # to
             THEN [ok |-> TRUE, st |-> paid, nested |-> NoNested]
             ELSE IF hook.kind = "reject"
             THEN [ok |-> FALSE, st |-> s, nested |-> NoNested]
             ELSE LET r == Dispatch(paid, hook.call, stipend)
                  IN  [ok |-> TRUE, st |-> r.st,
                       nested |-> << [op |-> hook.call.op, err |-> r.err,
                                      during |-> inFlight] >>]

(* ------------------------- contract functions -------------------------- *)
onlyOwner_anyAccount(sender) == sender \in Accounts

(* Ownable.onlyOwner *)
onlyOwner(sender) == sender = contractOwner

(* updateListingPrice(_listingPrice) onlyOwner *)
updateListingPrice(s, sender, newListingPrice) ==
    IF ~onlyOwner(sender) THEN Revert(s, E_OWNABLE)
    ELSE Success([s EXCEPT !.listingPrice = newListingPrice], NoNested)

getListingPrice_onlyOwner(s, sender) ==
    IF ~onlyOwner(sender) THEN [err |-> E_OWNABLE, ret |-> 0]
    ELSE [err |-> OK, ret |-> s.listingPrice]

(* getListingPrice() view: no modifier, any caller; returns [err, ret] *)
getListingPrice(s, sender) == [err |-> OK, ret |-> s.listingPrice]

createMarketItem_noEvent(s, sender, value, tokenId, price) ==
    IF ~(price > 0) THEN Revert(s, E_PRICE)
    ELSE IF value # s.listingPrice THEN Revert(s, E_FEE)
    ELSE LET s1 == [s EXCEPT !.idToMarketItem[tokenId] =
                        MarketItem(tokenId, sender, THIS, price, FALSE, TRUE)]
             t == TransferToken(s1, sender, THIS, tokenId)
         IN  IF ~t.ok THEN Revert(s, t.err) ELSE Success(t.st, NoNested)

createMarketItem_acceptsOverpay(s, sender, value, tokenId, price) ==
    IF ~(price > 0) THEN Revert(s, E_PRICE)
    ELSE IF value < s.listingPrice THEN Revert(s, E_FEE)
    ELSE LET s1 == [s EXCEPT !.idToMarketItem[tokenId] =
                        MarketItem(tokenId, sender, THIS, price, FALSE, TRUE)]
             t == TransferToken(s1, sender, THIS, tokenId)
         IN  IF ~t.ok THEN Revert(s, t.err)
             ELSE Success([t.st EXCEPT !.events = Append(@,
                     [type |-> "MarketItemCreated", tokenId |-> tokenId,
                      seller |-> sender, owner |-> THIS, price |-> price,
                      sold |-> FALSE])], NoNested)

createMarketItem_ownerIsSeller(s, sender, value, tokenId, price) ==
    IF ~(price > 0) THEN Revert(s, E_PRICE)
    ELSE IF value # s.listingPrice THEN Revert(s, E_FEE)
    ELSE LET s1 == [s EXCEPT !.idToMarketItem[tokenId] =
                        MarketItem(tokenId, sender, sender, price, FALSE, TRUE)]
             t == TransferToken(s1, sender, THIS, tokenId)
         IN  IF ~t.ok THEN Revert(s, t.err)
             ELSE Success([t.st EXCEPT !.events = Append(@,
                     [type |-> "MarketItemCreated", tokenId |-> tokenId,
                      seller |-> sender, owner |-> THIS, price |-> price,
                      sold |-> FALSE])], NoNested)

(* createMarketItem(tokenId, price) private, msg.sender and msg.value of   *)
(* the enclosing createToken call.                                         *)
createMarketItem(s, sender, value, tokenId, price) ==
    IF ~(price > 0) THEN Revert(s, E_PRICE)
    ELSE IF value # s.listingPrice THEN Revert(s, E_FEE)
    ELSE LET s1 == [s EXCEPT !.idToMarketItem[tokenId] =
                        MarketItem(tokenId, sender, THIS, price, FALSE, TRUE)]
             t == TransferToken(s1, sender, THIS, tokenId)
         IN  IF ~t.ok THEN Revert(s, t.err)
             ELSE Success([t.st EXCEPT !.events = Append(@,
                     [type |-> "MarketItemCreated", tokenId |-> tokenId,
                      seller |-> sender, owner |-> THIS, price |-> price,
                      sold |-> FALSE])], NoNested)

createToken_keepsCounter(s, sender, value, price) ==
    LET s0 == Receive(s, sender, value)
        s1 == [s0 EXCEPT !.tokenIds = @ + 1]
        newTokenId == s1.tokenIds
        s2 == [s1 EXCEPT !.owners[newTokenId] = sender]
        r == createMarketItem(s2, sender, value, newTokenId, price)
    IN  IF r.err # OK THEN Revert([s EXCEPT !.tokenIds = @ + 1], r.err)
        ELSE [Success(r.st, NoNested) EXCEPT !.ret = newTokenId]

(* createToken(tokenURI, price) payable: no nonReentrant modifier *)
createToken(s, sender, value, price) ==
    LET s0 == Receive(s, sender, value)
        s1 == [s0 EXCEPT !.tokenIds = @ + 1]
        newTokenId == s1.tokenIds
        s2 == [s1 EXCEPT !.owners[newTokenId] = sender]
        r == createMarketItem(s2, sender, value, newTokenId, price)
    IN  IF r.err # OK THEN Revert(s, r.err)
        ELSE [Success(r.st, NoNested) EXCEPT !.ret = newTokenId]

listMarketItem_patchesFields(s, sender, value, tokenId, price) ==
    IF s.status = ENTERED THEN Revert(s, E_REENTRANT)
    ELSE LET s0 == [Receive(s, sender, value) EXCEPT !.status = ENTERED]
         IN  IF s0.owners[tokenId] = ZERO THEN Revert(s, E_NONEXISTENT)
             ELSE IF s0.owners[tokenId] # sender THEN Revert(s, E_NOT_OWNER)
             ELSE IF ~(price > 0) THEN Revert(s, E_PRICE)
             ELSE IF value # s0.listingPrice THEN Revert(s, E_FEE)
             ELSE IF s0.idToMarketItem[tokenId].listed THEN Revert(s, E_LISTED)
             ELSE LET s1 == [s0 EXCEPT
                              !.idToMarketItem[tokenId].tokenId = tokenId,
                              !.idToMarketItem[tokenId].seller = sender,
                              !.idToMarketItem[tokenId].owner = THIS,
                              !.idToMarketItem[tokenId].price = price,
                              !.idToMarketItem[tokenId].listed = TRUE]
                      t == TransferToken(s1, sender, THIS, tokenId)
                  IN  IF ~t.ok THEN Revert(s, t.err)
                      ELSE Success([t.st EXCEPT
                              !.events = Append(@,
                                  [type |-> "MarketItemListed",
                                   tokenId |-> tokenId, seller |-> sender,
                                   price |-> price]),
                              !.status = NOT_ENTERED], NoNested)

(* listMarketItem(tokenId, price) payable nonReentrant *)
listMarketItem(s, sender, value, tokenId, price) ==
    IF s.status = ENTERED THEN Revert(s, E_REENTRANT)
    ELSE LET s0 == [Receive(s, sender, value) EXCEPT !.status = ENTERED]
         IN  IF s0.owners[tokenId] = ZERO THEN Revert(s, E_NONEXISTENT)
             ELSE IF s0.owners[tokenId] # sender THEN Revert(s, E_NOT_OWNER)
             ELSE IF ~(price > 0) THEN Revert(s, E_PRICE)
             ELSE IF value # s0.listingPrice THEN Revert(s, E_FEE)
             ELSE IF s0.idToMarketItem[tokenId].listed THEN Revert(s, E_LISTED)
             ELSE LET s1 == [s0 EXCEPT !.idToMarketItem[tokenId] =
                          MarketItem(tokenId, sender, THIS, price, FALSE, TRUE)]
                      t == TransferToken(s1, sender, THIS, tokenId)
                  IN  IF ~t.ok THEN Revert(s, t.err)
                      ELSE Success([t.st EXCEPT
                              !.events = Append(@,
                                  [type |-> "MarketItemListed",
                                   tokenId |-> tokenId, seller |-> sender,
                                   price |-> price]),
                              !.status = NOT_ENTERED], NoNested)

(* delistMarketItem: the two writes to the record *)
DelistWrites_clearsPrice(s, sender, tokenId) ==
    [s EXCEPT !.idToMarketItem[tokenId].listed = FALSE,
              !.idToMarketItem[tokenId].owner = sender,
              !.idToMarketItem[tokenId].price = 0]

DelistWrites_marksSold(s, sender, tokenId) ==
    [s EXCEPT !.idToMarketItem[tokenId].listed = FALSE,
              !.idToMarketItem[tokenId].owner = sender,
              !.idToMarketItem[tokenId].sold = TRUE]

DelistWrites_keepOwner(s, sender, tokenId) ==
    [s EXCEPT !.idToMarketItem[tokenId].listed = FALSE]

DelistWrites(s, sender, tokenId) ==
    [s EXCEPT !.idToMarketItem[tokenId].listed = FALSE,
              !.idToMarketItem[tokenId].owner = sender]

delistMarketItem_anyCaller(s, sender, tokenId) ==
    IF s.status = ENTERED THEN Revert(s, E_REENTRANT)
    ELSE LET s0 == [s EXCEPT !.status = ENTERED]
         IN  IF ~s0.idToMarketItem[tokenId].listed
             THEN Revert(s, E_NOT_LISTED)
             ELSE IF s0.idToMarketItem[tokenId].sold THEN Revert(s, E_SOLD)
             ELSE LET s1 == DelistWrites(s0, sender, tokenId)
                      t == TransferToken(s1, THIS, sender, tokenId)
                  IN  IF ~t.ok THEN Revert(s, t.err)
                      ELSE Success([t.st EXCEPT
                              !.events = Append(@,
                                  [type |-> "MarketItemDelisted",
                                   tokenId |-> tokenId, seller |-> sender]),
                              !.status = NOT_ENTERED], NoNested)

(* delistMarketItem(tokenId) nonReentrant *)
delistMarketItem(s, sender, tokenId) ==
    IF s.status = ENTERED THEN Revert(s, E_REENTRANT)
    ELSE LET s0 == [s EXCEPT !.status = ENTERED]
         IN  IF s0.idToMarketItem[tokenId].seller # sender
             THEN Revert(s, E_DELIST_SELLER)
             ELSE IF ~s0.idToMarketItem[tokenId].listed
             THEN Revert(s, E_NOT_LISTED)
             ELSE IF s0.idToMarketItem[tokenId].sold THEN Revert(s, E_SOLD)
             ELSE LET s1 == DelistWrites(s0, sender, tokenId)
                      t == TransferToken(s1, THIS, sender, tokenId)
                  IN  IF ~t.ok THEN Revert(s, t.err)
                      ELSE Success([t.st EXCEPT
                              !.events = Append(@,
                                  [type |-> "MarketItemDelisted",
                                   tokenId |-> tokenId, seller |-> sender]),
                              !.status = NOT_ENTERED], NoNested)

(* createMarketSale: the four requires, in order; OK when all pass *)
SaleChecks_noStateCheck(s, sender, value, tokenId) ==
    IF value # s.idToMarketItem[tokenId].price THEN E_ASKING
    ELSE IF s.idToMarketItem[tokenId].seller = sender THEN E_OWN_ITEM
    ELSE OK

SaleChecks_anyBuyer(s, sender, value, tokenId) ==
    IF value # s.idToMarketItem[tokenId].price THEN E_ASKING
    ELSE IF ~s.idToMarketItem[tokenId].listed THEN E_NOT_FOR_SALE
    ELSE IF s.idToMarketItem[tokenId].sold THEN E_SOLD
    ELSE OK

SaleChecks(s, sender, value, tokenId) ==
    IF value # s.idToMarketItem[tokenId].price THEN E_ASKING
    ELSE IF ~s.idToMarketItem[tokenId].listed THEN E_NOT_FOR_SALE
    ELSE IF s.idToMarketItem[tokenId].sold THEN E_SOLD
    ELSE IF s.idToMarketItem[tokenId].seller = sender THEN E_OWN_ITEM
    ELSE OK

(* createMarketSale: the writes to the record and to _itemsSold *)
SaleWrites_noCount(s, sender, tokenId) ==
    [s EXCEPT !.idToMarketItem[tokenId].owner = sender,
              !.idToMarketItem[tokenId].sold = TRUE,
              !.idToMarketItem[tokenId].listed = FALSE]

SaleWrites_stillListed(s, sender, tokenId) ==
    [s EXCEPT !.idToMarketItem[tokenId].owner = sender,
              !.idToMarketItem[tokenId].sold = TRUE,
              !.itemsSold = @ + 1]

SaleWrites_sellerIsBuyer(s, sender, tokenId) ==
    [s EXCEPT !.idToMarketItem[tokenId].owner = sender,
              !.idToMarketItem[tokenId].seller = sender,
              !.idToMarketItem[tokenId].sold = TRUE,
              !.idToMarketItem[tokenId].listed = FALSE,
              !.itemsSold = @ + 1]

SaleWrites(s, sender, tokenId) ==
    [s EXCEPT !.idToMarketItem[tokenId].owner = sender,
              !.idToMarketItem[tokenId].sold = TRUE,
              !.idToMarketItem[tokenId].listed = FALSE,
              !.itemsSold = @ + 1]

(* createMarketSale: the amount forwarded to the seller, msg.value *)
SellerProceeds_plusFee(value, fee) == value + fee

SellerProceeds_lessFee(value, fee) == IF value >= fee THEN value - fee ELSE 0

SellerProceeds(value, fee) == value

(* createMarketSale(tokenId) payable nonReentrant *)
createMarketSale(s, sender, value, tokenId, hook) ==
    IF s.status = ENTERED THEN Revert(s, E_REENTRANT)
    ELSE LET s0 == [Receive(s, sender, value) EXCEPT !.status = ENTERED]
             price == s0.idToMarketItem[tokenId].price
             seller == s0.idToMarketItem[tokenId].seller
             check == SaleChecks(s0, sender, value, tokenId)
         IN  IF check # OK THEN Revert(s, check)
             ELSE LET s1 == SaleWrites(s0, sender, tokenId)
                      t == TransferToken(s1, THIS, sender, tokenId)
                  IN  IF ~t.ok THEN Revert(s, t.err)
                      ELSE LET p1 == Send(t.st, contractOwner,
                                          t.st.listingPrice, hook, TRUE,
                                          "createMarketSale")
                           IN  IF ~p1.ok THEN Revert(s, E_TRANSFER)
                               ELSE LET p2 == Send(p1.st, seller,
                                              SellerProceeds(value,
                                                  p1.st.listingPrice),
                                              hook, TRUE, "createMarketSale")
                                    IN  IF ~p2.ok THEN Revert(s, E_TRANSFER)
                                        ELSE Success([p2.st EXCEPT
                                            !.events = Append(@,
                                              [type |-> "MarketItemSold",
                                               tokenId |-> tokenId,
                                               seller |-> seller,
                                               buyer |-> sender,
                                               price |-> price]),
                                            !.status = NOT_ENTERED],
                                          p1.nested \o p2.nested)

updateMarketItemPrice_anyCaller(s, sender, tokenId, newPrice) ==
    IF ~s.idToMarketItem[tokenId].listed THEN Revert(s, E_NOT_LISTED)
    ELSE IF s.idToMarketItem[tokenId].sold THEN Revert(s, E_SOLD)
    ELSE IF ~(newPrice > 0) THEN Revert(s, E_PRICE)
    ELSE Success([s EXCEPT !.idToMarketItem[tokenId].price = newPrice],
                 NoNested)

updateMarketItemPrice_noStateCheck(s, sender, tokenId, newPrice) ==
    IF s.idToMarketItem[tokenId].seller # sender THEN Revert(s, E_UPDATE_SELLER)
    ELSE IF ~(newPrice > 0) THEN Revert(s, E_PRICE)
    ELSE Success([s EXCEPT !.idToMarketItem[tokenId].price = newPrice],
                 NoNested)

updateMarketItemPrice_anyPrice(s, sender, tokenId, newPrice) ==
    IF s.idToMarketItem[tokenId].seller # sender THEN Revert(s, E_UPDATE_SELLER)
    ELSE IF ~s.idToMarketItem[tokenId].listed THEN Revert(s, E_NOT_LISTED)
    ELSE IF s.idToMarketItem[tokenId].sold THEN Revert(s, E_SOLD)
    ELSE Success([s EXCEPT !.idToMarketItem[tokenId].price = newPrice],
                 NoNested)

(* updateMarketItemPrice(tokenId, newPrice): no nonReentrant modifier *)
updateMarketItemPrice(s, sender, tokenId, newPrice) ==
    IF s.idToMarketItem[tokenId].seller # sender THEN Revert(s, E_UPDATE_SELLER)
    ELSE IF ~s.idToMarketItem[tokenId].listed THEN Revert(s, E_NOT_LISTED)
    ELSE IF s.idToMarketItem[tokenId].sold THEN Revert(s, E_SOLD)
    ELSE IF ~(newPrice > 0) THEN Revert(s, E_PRICE)
    ELSE Success([s EXCEPT !.idToMarketItem[tokenId].price = newPrice],
                 NoNested)

withdraw_keepsPool(s, sender, hook) ==
    IF ~onlyOwner(sender) THEN Revert(s, E_OWNABLE)
    ELSE LET bal == s.balance[THIS]
         IN  IF ~(bal > 0) THEN Revert(s, E_NO_FUNDS)
             ELSE Success([s EXCEPT !.balance[contractOwner] = @ + bal],
                          NoNested)

(* withdraw() onlyOwner: no nonReentrant modifier, forwards all gas *)
withdraw(s, sender, hook) ==
    IF ~onlyOwner(sender) THEN Revert(s, E_OWNABLE)
    ELSE LET bal == s.balance[THIS]
         IN  IF ~(bal > 0) THEN Revert(s, E_NO_FUNDS)
             ELSE LET p == Send(s, contractOwner, bal, hook, FALSE, "withdraw")
                  IN  IF ~p.ok THEN Revert(s, E_WITHDRAW)
                      ELSE Success(p.st, p.nested)

emergencyTransfer_keepsRecord(s, sender, tokenId, to) ==
    IF ~onlyOwner(sender) THEN Revert(s, E_OWNABLE)
    ELSE IF s.owners[tokenId] = ZERO THEN Revert(s, E_NONEXISTENT)
    ELSE IF s.owners[tokenId] # THIS THEN Revert(s, E_NOT_ESCROW)
    ELSE LET t == TransferToken(s, THIS, to, tokenId)
         IN  IF ~t.ok THEN Revert(s, t.err) ELSE Success(t.st, NoNested)

(* emergencyTransfer(tokenId, to) onlyOwner *)
emergencyTransfer(s, sender, tokenId, to) ==
    IF ~onlyOwner(sender) THEN Revert(s, E_OWNABLE)
    ELSE IF s.owners[tokenId] = ZERO THEN Revert(s, E_NONEXISTENT)
    ELSE IF s.owners[tokenId] # THIS THEN Revert(s, E_NOT_ESCROW)
    ELSE LET t == TransferToken(s, THIS, to, tokenId)
         IN  IF ~t.ok THEN Revert(s, t.err)
             ELSE Success([t.st EXCEPT !.idToMarketItem[tokenId] = ZeroItem],
                          NoNested)

(* ------------------------------- views --------------------------------- *)
(* A view returns [err, items]; checked arithmetic and array indexing      *)
(* panic (Solidity >= 0.8), which reverts the call.                        *)
E_PANIC_ARITHMETIC == "Panic(0x11)"
E_PANIC_INDEX == "Panic(0x32)"

ViewOk(items) == [err |-> OK, items |-> items]
ViewRevert(reason) == [err |-> reason, items |-> << >>]

(* new MarketItem[](n): n zero-valued entries *)
NewItems(n) == [k \in 1..n |-> ZeroItem]

RECURSIVE FetchMarketItemsLoop(_, _, _, _)

(* fetchMarketItems: the for loop from i, items[currentIndex] next to fill *)
FetchMarketItemsLoop(s, i, items, currentIndex) ==
    IF ~(i < s.tokenIds) THEN ViewOk(items)
    ELSE IF s.idToMarketItem[i + 1].owner = THIS
            /\ s.idToMarketItem[i + 1].listed
         THEN IF ~(currentIndex < Len(items)) THEN ViewRevert(E_PANIC_INDEX)
              ELSE FetchMarketItemsLoop(s, i + 1,
                       [items EXCEPT ![currentIndex + 1] =
                                         s.idToMarketItem[i + 1]],
                       currentIndex + 1)
         ELSE FetchMarketItemsLoop(s, i + 1, items, currentIndex)

(* fetchMarketItems() view: the array has _tokenIds - _itemsSold entries *)
fetchMarketItems(s) ==
    IF s.tokenIds - s.itemsSold < 0 THEN ViewRevert(E_PANIC_ARITHMETIC)
    ELSE FetchMarketItemsLoop(s, 0, NewItems(s.tokenIds - s.itemsSold), 0)

RECURSIVE FetchMyNFTsCount(_, _, _, _)

(* fetchMyNFTs: the first for loop, counting the records owned by sender *)
FetchMyNFTsCount(s, sender, i, itemCount) ==
    IF ~(i < s.tokenIds) THEN itemCount
    ELSE FetchMyNFTsCount(s, sender, i + 1,
             IF s.idToMarketItem[i + 1].owner = sender THEN itemCount + 1
                                                       ELSE itemCount)

RECURSIVE FetchMyNFTsFill(_, _, _, _, _)

(* fetchMyNFTs: the second for loop, copying the records owned by sender *)
FetchMyNFTsFill(s, sender, i, items, currentIndex) ==
    IF ~(i < s.tokenIds) THEN ViewOk(items)
    ELSE IF s.idToMarketItem[i + 1].owner = sender
         THEN IF ~(currentIndex < Len(items)) THEN ViewRevert(E_PANIC_INDEX)
              ELSE FetchMyNFTsFill(s, sender, i + 1,
                       [items EXCEPT ![currentIndex + 1] =
                                         s.idToMarketItem[i + 1]],
                       currentIndex + 1)
         ELSE FetchMyNFTsFill(s, sender, i + 1, items, currentIndex)

fetchMyNFTs_sizedByTotal(s, sender) ==
    FetchMyNFTsFill(s, sender, 0, NewItems(s.tokenIds), 0)

(* fetchMyNFTs() view: the records whose owner field is msg.sender *)
fetchMyNFTs(s, sender) ==
    FetchMyNFTsFill(s, sender, 0,
                    NewItems(FetchMyNFTsCount(s, sender, 0, 0)), 0)

NonReentrantOps == {"listMarketItem", "delistMarketItem", "createMarketSale"}

(* The public functions by name: a call c on state s, the hook being what  *)
(* the recipients of its payments do.                                      *)
Exec(s, c, hook) ==
    CASE c.op = "createToken" ->
            createToken(s, c.sender, c.value, c.price)
      [] c.op = "listMarketItem" ->
            listMarketItem(s, c.sender, c.value, c.tokenId, c.price)
      [] c.op = "delistMarketItem" ->
            delistMarketItem(s, c.sender, c.tokenId)
      [] c.op = "createMarketSale" ->
            createMarketSale(s, c.sender, c.value, c.tokenId, hook)
      [] c.op = "updateMarketItemPrice" ->
            updateMarketItemPrice(s, c.sender, c.tokenId, c.price)
      [] c.op = "updateListingPrice" ->
            updateListingPrice(s, c.sender, c.price)
      [] c.op = "withdraw" -> withdraw(s, c.sender, hook)
      [] c.op = "emergencyTransfer" ->
            emergencyTransfer(s, c.sender, c.tokenId, c.to)

(* A call made from a payment hook.  Under the 2300 gas stipend of         *)
(* address.transfer no storage write and no value transfer is affordable:  *)
(* only the nonReentrant check of a zero-value call is reached.  With all  *)
(* gas forwarded the call runs as any other.                               *)
Dispatch(s, c, stipend) ==
    IF stipend
    THEN IF c.op \in NonReentrantOps /\ c.value = 0 /\ s.status = ENTERED
         THEN Revert(s, E_REENTRANT)
         ELSE Revert(s, E_OUT_OF_GAS)
    ELSE IF c.value > s.balance[c.sender] THEN Revert(s, E_TRANSFER)
    ELSE Exec(s, c, NoHook)

(* ------------------------------ the machine ---------------------------- *)
NoCall == Call("none", ZERO, 0, 0, 0, ZERO)

Init ==
    /\ tokenIds = 0
    /\ itemsSold = 0
    /\ listingPrice = InitialListingPrice
    /\ idToMarketItem = [t \in TokenIds |-> ZeroItem]
    /\ owners = [t \in TokenIds |-> ZERO]
    /\ balance = [a \in Addresses |-> IF a = THIS THEN 0 ELSE InitialFunds]
    /\ status = NOT_ENTERED
    /\ events = << >>
    /\ last = [call |-> NoCall, nested |-> NoNested, ret |-> 0]
    /\ txCount = 0

(* The calls the accounts can send, per function. *)
CreateTokenCalls ==
    {Call("createToken", a, v, 0, p, ZERO) :
        a \in {x \in Accounts : tokenIds < MaxTokens},
        v \in Values, p \in Prices}

ListMarketItemCalls ==
    {Call("listMarketItem", a, v, t, p, ZERO) :
        a \in Accounts, v \in Values, t \in TokenIds, p \in Prices}

DelistMarketItemCalls ==
    {Call("delistMarketItem", a, 0, t, 0, ZERO) : a \in Accounts, t \in TokenIds}

CreateMarketSaleCalls ==
    {Call("createMarketSale", a, v, t, 0, ZERO) :
        a \in Accounts, v \in Values, t \in TokenIds}

UpdateMarketItemPriceCalls ==
    {Call("updateMarketItemPrice", a, 0, t, p, ZERO) :
        a \in Accounts, t \in TokenIds, p \in NewPrices}

UpdateListingPriceCalls ==
    {Call("updateListingPrice", a, 0, 0, f, ZERO) : a \in Accounts, f \in Fees}

WithdrawCalls == {Call("withdraw", a, 0, 0, 0, ZERO) : a \in Accounts}

EmergencyTransferCalls ==
    {Call("emergencyTransfer", a, 0, t, 0, to) :
        a \in Accounts, t \in TokenIds, to \in Recipients}

Calls ==
    CreateTokenCalls \cup ListMarketItemCalls \cup DelistMarketItemCalls
    \cup CreateMarketSaleCalls \cup UpdateMarketItemPriceCalls
    \cup UpdateListingPriceCalls \cup WithdrawCalls \cup EmergencyTransferCalls

Affordable(c) == c.value <= balance[c.sender]

(* The calls a paid contract account may make from its payment hook.  The *)
(* seller paid by a sale tries to take the token back; the platform owner  *)
(* paid by a withdrawal may also mint at the fee in force.                 *)
DelistHookCalls(who) ==
    {Call("delistMarketItem", who, 0, t, 0, ZERO) : t \in TokenIds}

MintHookCalls(who) ==
    {Call("createToken", who, listingPrice, 0, 1000, ZERO) :
        x \in {y \in {1} : tokenIds < MaxTokens}}

Hooks(who, calls) ==
    {NoHook, RejectHook(who)} \cup {CallHook(who, c) : c \in calls}

(* The hooks that can run in a call: that of the seller in a sale, that of *)
(* the platform owner in a withdrawal.                                     *)
HookChoices(c) ==
    CASE c.op = "createMarketSale" ->
            {NoHook} \cup UNION {Hooks(a, DelistHookCalls(a)) :
                a \in {idToMarketItem[c.tokenId].seller} \cap Accounts}
      [] c.op = "withdraw" ->
            Hooks(contractOwner, DelistHookCalls(contractOwner)
                                 \cup MintHookCalls(contractOwner))
      [] OTHER -> {NoHook}

(* A hook runs only in a call that reaches its payment. *)
ReachedHooks(c) ==
    IF Exec(Chain, c, NoHook).err = OK THEN HookChoices(c) ELSE {NoHook}

(* A transaction: the sender can afford msg.value; the result's state is   *)
(* committed.  A reverted transaction leaves the chain as it was, and      *)
(* `last` keeps the receipt of the last transaction that succeeded.        *)
(* txCount counts the committed transactions.                              *)
Transact(c, r) ==
    /\ Affordable(c)
    /\ txCount' = IF r.err = OK THEN txCount + 1 ELSE txCount
    /\ tokenIds' = r.st.tokenIds
    /\ itemsSold' = r.st.itemsSold
    /\ listingPrice' = r.st.listingPrice
    /\ idToMarketItem' = r.st.idToMarketItem
    /\ owners' = r.st.owners
    /\ balance' = r.st.balance
    /\ status' = r.st.status
    /\ events' = r.st.events
    /\ last' = IF r.err = OK
               THEN [call |-> c, nested |-> r.nested, ret |-> r.ret]
               ELSE last

CreateToken ==
    \E c \in CreateTokenCalls :
        Transact(c, createToken(Chain, c.sender, c.value, c.price))

ListMarketItem ==
    \E c \in ListMarketItemCalls :
        Transact(c, listMarketItem(Chain, c.sender, c.value, c.tokenId,
                                   c.price))

DelistMarketItem ==
    \E c \in DelistMarketItemCalls :
        Transact(c, delistMarketItem(Chain, c.sender, c.tokenId))

CreateMarketSale ==
    \E c \in CreateMarketSaleCalls :
        \E hook \in ReachedHooks(c) :
            Transact(c, createMarketSale(Chain, c.sender, c.value, c.tokenId,
                                         hook))

UpdateMarketItemPrice ==
    \E c \in UpdateMarketItemPriceCalls :
        Transact(c, updateMarketItemPrice(Chain, c.sender, c.tokenId, c.price))

UpdateListingPrice ==
    \E c \in UpdateListingPriceCalls :
        Transact(c, updateListingPrice(Chain, c.sender, c.price))

Withdraw ==
    \E c \in WithdrawCalls :
        \E hook \in ReachedHooks(c) :
            Transact(c, withdraw(Chain, c.sender, hook))

EmergencyTransfer ==
    \E c \in EmergencyTransferCalls :
        Transact(c, emergencyTransfer(Chain, c.sender, c.tokenId, c.to))

(* The ledger explored up to MaxTx committed transactions. *)
Next ==
    \/ txCount < MaxTx /\ CreateToken
    \/ txCount < MaxTx /\ ListMarketItem
    \/ txCount < MaxTx /\ DelistMarketItem
    \/ txCount < MaxTx /\ CreateMarketSale
    \/ txCount < MaxTx /\ UpdateMarketItemPrice
    \/ txCount < MaxTx /\ UpdateListingPrice
    \/ txCount < MaxTx /\ Withdraw
    \/ txCount < MaxTx /\ EmergencyTransfer

(* The same ledger explored one transaction deeper. *)
NextDeep ==
    \/ txCount < MaxTxDeep /\ CreateToken
    \/ txCount < MaxTxDeep /\ ListMarketItem
    \/ txCount < MaxTxDeep /\ DelistMarketItem
    \/ txCount < MaxTxDeep /\ CreateMarketSale
    \/ txCount < MaxTxDeep /\ UpdateMarketItemPrice
    \/ txCount < MaxTxDeep /\ UpdateListingPrice
    \/ txCount < MaxTxDeep /\ Withdraw
    \/ txCount < MaxTxDeep /\ EmergencyTransfer

Spec == Init /\ [][Next]_vars

SpecDeep == Init /\ [][NextDeep]_vars

(* ------------------------------ properties ----------------------------- *)
(* The result of call c with hook h on the current chain. *)
Outcome(c, h) == Exec(Chain, c, h)

(* The step committed a createMarketSale transaction. *)
SaleCommitted ==
    /\ txCount' = txCount + 1
    /\ last'.call.op = "createMarketSale"

FundMovingOps ==
    {"createToken", "listMarketItem", "delistMarketItem", "createMarketSale",
     "withdraw"}

(* C1: every successful sale credits the seller exactly the buyer's        *)
(* payment, which is the recorded price, credits the platform owner        *)
(* exactly the listing fee in force, and takes that fee from the balance   *)
(* the contract held before the payment: the contract's balance falls by   *)
(* exactly the fee.                                                        *)
C1_SaleConservation ==
    [][SaleCommitted =>
        LET c == last'.call
            item == idToMarketItem[c.tokenId]
        IN  /\ c.value = item.price
            /\ balance[THIS] >= listingPrice
            /\ balance'[THIS] = balance[THIS] - listingPrice
            /\ \A a \in Accounts :
                 balance'[a] = balance[a]
                     + (IF a = item.seller THEN c.value ELSE 0)
                     + (IF a = contractOwner THEN listingPrice ELSE 0)
                     - (IF a = c.sender THEN c.value ELSE 0)]_vars

C1_Witness ==
    /\ last.call.op = "createMarketSale"
    /\ last.call.value > 0
    /\ listingPrice > 0
    /\ idToMarketItem[last.call.tokenId].seller # contractOwner
    /\ balance[contractOwner] > InitialFunds

(* C2: no MarketItem is ever sold and listed at once. *)
C2_SoldNotListed ==
    \A t \in TokenIds : ~(idToMarketItem[t].sold /\ idToMarketItem[t].listed)

C2_Witness ==
    /\ \E t \in TokenIds : idToMarketItem[t].sold
    /\ \E t \in TokenIds : idToMarketItem[t].listed

(* C3: a MarketItem's owner field is the contract (escrow) exactly when    *)
(* the item is listed.                                                     *)
C3_OwnerEscrowIffListed ==
    \A t \in TokenIds :
        (idToMarketItem[t].owner = THIS) <=> idToMarketItem[t].listed

C3_Witness ==
    /\ \E t \in TokenIds : idToMarketItem[t].listed
    /\ \E t \in TokenIds :
          /\ ~idToMarketItem[t].listed
          /\ ~idToMarketItem[t].sold
          /\ idToMarketItem[t].owner \in Accounts

(* C4: the number of sales never exceeds the number of tokens minted. *)
C4_SoldCountBounded == itemsSold <= tokenIds

(* C5: a listed MarketItem has a strictly positive price. *)
C5_ListedPricePositive ==
    \A t \in TokenIds : idToMarketItem[t].listed => idToMarketItem[t].price > 0

C5_Witness ==
    /\ last.call.op = "updateMarketItemPrice"
    /\ idToMarketItem[last.call.tokenId].listed
    /\ \E t \in TokenIds : t # last.call.tokenId /\ idToMarketItem[t].listed

(* C6: a call that fails leaves the records, token owners, both counters,  *)
(* the listing fee, every balance and the event log as they were; a failed *)
(* createToken consumes no token id.                                       *)
C6_FailureChangesNothing ==
    \A c \in Calls : \A h \in HookChoices(c) :
        LET r == Outcome(c, h)
        IN  (Affordable(c) /\ r.err # OK) => r.st = Chain

C6_Witness ==
    /\ tokenIds >= 1
    /\ last.call.op = "withdraw"
    /\ \E c \in CreateTokenCalls :
          /\ Affordable(c)
          /\ c.price > 0
          /\ Outcome(c, NoHook).err = E_FEE
    /\ \E c \in CreateMarketSaleCalls :
          /\ Affordable(c)
          /\ Outcome(c, NoHook).err = E_TRANSFER

(* C7: a successful sale of tokenId to buyer B sets the record's owner to  *)
(* B, sold to TRUE and listed to FALSE, keeps seller and price, adds one   *)
(* to the sales counter and moves the token from the contract to B; no     *)
(* other token's record or owner changes.                                  *)
C7_SaleEffect ==
    [][SaleCommitted =>
        LET c == last'.call
        IN  /\ idToMarketItem'[c.tokenId] =
                  [idToMarketItem[c.tokenId] EXCEPT !.owner = c.sender,
                                                    !.sold = TRUE,
                                                    !.listed = FALSE]
            /\ itemsSold' = itemsSold + 1
            /\ owners[c.tokenId] = THIS
            /\ owners'[c.tokenId] = c.sender
            /\ tokenIds' = tokenIds
            /\ \A t \in TokenIds \ {c.tokenId} :
                  /\ idToMarketItem'[t] = idToMarketItem[t]
                  /\ owners'[t] = owners[t]]_vars

C7_Witness ==
    /\ last.call.op = "createMarketSale"
    /\ idToMarketItem[last.call.tokenId].sold
    /\ owners[last.call.tokenId] = last.call.sender
    /\ \E t \in TokenIds : t # last.call.tokenId /\ idToMarketItem[t].listed

(* C8: a sale fails with ValidationError when the payment differs from the *)
(* recorded price; otherwise with StateError when the item is not listed   *)
(* or is sold (a token id never created included); otherwise with          *)
(* AuthorizationError when the buyer is the recorded seller; and it        *)
(* succeeds only when the item is listed, unsold, paid exactly and bought  *)
(* by another account than the seller.                                     *)
C8_SaleErrors ==
    \A c \in CreateMarketSaleCalls : \A h \in HookChoices(c) :
        Affordable(c) =>
        LET item == idToMarketItem[c.tokenId]
            r == Outcome(c, h)
            kind == ErrKind(r.err)
        IN  /\ c.value # item.price => kind = "ValidationError"
            /\ (c.value = item.price /\ (~item.listed \/ item.sold))
                  => kind = "StateError"
            /\ (c.value = item.price /\ item.listed /\ ~item.sold
                   /\ item.seller = c.sender) => kind = "AuthorizationError"
            /\ r.err = OK =>
                  /\ item.listed
                  /\ ~item.sold
                  /\ c.value = item.price
                  /\ item.seller # c.sender

C8_Witness ==
    \E t \in TokenIds, u \in TokenIds :
        /\ idToMarketItem[t].listed
        /\ idToMarketItem[u] = ZeroItem
        /\ \E c \in CreateMarketSaleCalls :
              /\ c.tokenId = t /\ Affordable(c)
              /\ Outcome(c, NoHook).err = E_ASKING
        /\ \E c \in CreateMarketSaleCalls :
              /\ c.tokenId = t /\ Affordable(c)
              /\ Outcome(c, NoHook).err = E_OWN_ITEM
        /\ \E c \in CreateMarketSaleCalls :
              /\ c.tokenId = u /\ Affordable(c)
              /\ Outcome(c, NoHook).err = E_NOT_FOR_SALE
        /\ \E c \in CreateMarketSaleCalls :
              /\ c.tokenId = t /\ Affordable(c)
              /\ Outcome(c, NoHook).err = OK

(* C9: the contract's balance is never negative, and when the balance held *)
(* before the buyer's payment is below the listing fee a sale aborts and   *)
(* leaves ownership, flags, counter and balances as they were; the abort   *)
(* of an otherwise valid sale is a TransferError.                          *)
C9_ShortfallAborts ==
    /\ balance[THIS] >= 0
    /\ \A c \in CreateMarketSaleCalls : \A h \in HookChoices(c) :
          (Affordable(c) /\ balance[THIS] < listingPrice) =>
              LET r == Outcome(c, h)
              IN  /\ r.err # OK
                  /\ r.st = Chain
                  /\ SaleChecks(Chain, c.sender, c.value, c.tokenId) = OK
                        => ErrKind(r.err) = "TransferError"

C9_Witness ==
    /\ balance[THIS] < listingPrice
    /\ last.call.op = "withdraw"
    /\ \E c \in CreateMarketSaleCalls :
          /\ Affordable(c)
          /\ SaleChecks(Chain, c.sender, c.value, c.tokenId) = OK
          /\ Outcome(c, NoHook).err = E_TRANSFER

(* C10: a call into a fund-moving function made from a payment hook while  *)
(* a fund-moving call is in flight fails with StateError, and the lock is  *)
(* released when the outer call has returned.                              *)
C10_ReentrancyLocked ==
    /\ status = NOT_ENTERED
    /\ \A i \in DOMAIN last.nested :
          last.nested[i].op \in FundMovingOps
              => ErrKind(last.nested[i].err) = "StateError"

(* The step committed a createToken transaction. *)
MintCommitted ==
    /\ txCount' = txCount + 1
    /\ last'.call.op = "createToken"

(* The MarketItemCreated events of a log, in order: one per mint. *)
CreatedEvents(log) == SelectSeq(log, LAMBDA e : e.type = "MarketItemCreated")

(* C11: the k-th successful createToken returns k, which is the token      *)
(* counter at entry plus one and an id no token held before; the counter   *)
(* advances by exactly one; the record of the new id is {id, seller =      *)
(* caller, owner = contract, price, sold = FALSE, listed = TRUE} and the   *)
(* contract holds the token.                                               *)
C11_MintAssignsNextId ==
    [][MintCommitted =>
        LET c == last'.call
            id == last'.ret
        IN  /\ id = tokenIds + 1
            /\ tokenIds' = tokenIds + 1
            /\ id = Len(CreatedEvents(events'))
            /\ owners[id] = ZERO
            /\ idToMarketItem[id] = ZeroItem
            /\ idToMarketItem'[id] =
                  MarketItem(id, c.sender, THIS, c.price, FALSE, TRUE)
            /\ owners'[id] = THIS
            /\ \A t \in TokenIds \ {id} :
                  /\ idToMarketItem'[t] = idToMarketItem[t]
                  /\ owners'[t] = owners[t]]_vars

C11_Witness ==
    /\ last.call.op = "createToken"
    /\ last.ret = 2
    /\ tokenIds = 2
    /\ idToMarketItem[2].seller = last.call.sender
    /\ idToMarketItem[1].seller # last.call.sender
    /\ owners[2] = THIS

(* The calls that create a listing: createToken and listMarketItem. *)
ListingCalls == CreateTokenCalls \cup ListMarketItemCalls

(* The price is zero or msg.value is not the listing fee in force. *)
BadPriceOrFee(c) == c.price = 0 \/ c.value # listingPrice

ListCommitted ==
    /\ txCount' = txCount + 1
    /\ last'.call.op = "listMarketItem"

(* C13: listMarketItem succeeds only when the caller is the token's        *)
(* current ERC721 owner and the item is not listed; on success the whole   *)
(* record becomes {tokenId, seller = caller, owner = contract, price = the *)
(* new price, sold = FALSE, listed = TRUE}, whatever it held before, and   *)
(* the token moves to the contract; nothing else about tokens changes.     *)
C13_RelistOverwrites ==
    [][ListCommitted =>
        LET c == last'.call
            t == c.tokenId
        IN  /\ owners[t] = c.sender
            /\ ~idToMarketItem[t].listed
            /\ idToMarketItem'[t] =
                  MarketItem(t, c.sender, THIS, c.price, FALSE, TRUE)
            /\ owners'[t] = THIS
            /\ tokenIds' = tokenIds
            /\ itemsSold' = itemsSold
            /\ \A u \in TokenIds \ {t} :
                  /\ idToMarketItem'[u] = idToMarketItem[u]
                  /\ owners'[u] = owners[u]]_vars

(* A token bought from another seller has been relisted by its buyer. *)
C13_Witness ==
    /\ last.call.op = "listMarketItem"
    /\ idToMarketItem[last.call.tokenId].seller = last.call.sender
    /\ ~idToMarketItem[last.call.tokenId].sold
    /\ \E i \in DOMAIN events :
          /\ events[i].type = "MarketItemSold"
          /\ events[i].tokenId = last.call.tokenId
          /\ events[i].buyer = last.call.sender
          /\ events[i].seller # last.call.sender

(* C14: delistMarketItem succeeds only for the recorded seller of a listed *)
(* unsold item; any other caller fails with AuthorizationError and the     *)
(* seller of an item not listed or sold with StateError.  On success       *)
(* listed becomes FALSE and owner the caller, the token returns from the   *)
(* contract to the caller, seller, price and sold are unchanged, and no    *)
(* balance changes: the listing fee stays in the contract.                 *)
C14_DelistEffect ==
    \A c \in DelistMarketItemCalls :
        LET r == Outcome(c, NoHook)
            item == idToMarketItem[c.tokenId]
        IN  /\ item.seller # c.sender
                  => ErrKind(r.err) = "AuthorizationError"
            /\ (item.seller = c.sender /\ (~item.listed \/ item.sold))
                  => ErrKind(r.err) = "StateError"
            /\ r.err # OK => r.st = Chain
            /\ (item.seller = c.sender /\ item.listed /\ ~item.sold) =>
                  /\ r.err = OK
                  /\ owners[c.tokenId] = THIS
                  /\ r.st.idToMarketItem =
                        [idToMarketItem EXCEPT ![c.tokenId] =
                            [item EXCEPT !.listed = FALSE,
                                         !.owner = c.sender]]
                  /\ r.st.owners = [owners EXCEPT ![c.tokenId] = c.sender]
                  /\ r.st.balance = balance
                  /\ r.st.tokenIds = tokenIds
                  /\ r.st.itemsSold = itemsSold
                  /\ r.st.listingPrice = listingPrice

(* A seller has delisted one item, has another listed, and a third party's *)
(* delist and the seller's second delist are refused.                      *)
C14_Witness ==
    /\ last.call.op = "delistMarketItem"
    /\ balance[THIS] > 0
    /\ idToMarketItem[last.call.tokenId].owner = last.call.sender
    /\ idToMarketItem[last.call.tokenId].price > 0
    /\ owners[last.call.tokenId] = last.call.sender
    /\ Outcome(last.call, NoHook).err = E_NOT_LISTED
    /\ \E c \in DelistMarketItemCalls :
          /\ c.tokenId # last.call.tokenId
          /\ Outcome(c, NoHook).err = OK
    /\ \E c \in DelistMarketItemCalls :
          /\ idToMarketItem[c.tokenId].listed
          /\ Outcome(c, NoHook).err = E_DELIST_SELLER

(* The calls on a sold item that must be refused: delist and price update  *)
(* by its recorded seller, and a purchase by anyone.                       *)
AfterSaleCalls ==
    {c \in DelistMarketItemCalls \cup UpdateMarketItemPriceCalls :
        /\ idToMarketItem[c.tokenId].sold
        /\ c.sender = idToMarketItem[c.tokenId].seller}
    \cup {c \in CreateMarketSaleCalls :
            idToMarketItem[c.tokenId].sold /\ Affordable(c)}

(* C15 as stated: while an item is sold, every delist and price update by  *)
(* its seller and every purchase fails with StateError and changes         *)
(* nothing.                                                                *)
C15_SoldRefusesWithStateError ==
    \A c \in AfterSaleCalls :
        LET r == Outcome(c, NoHook)
        IN  /\ ErrKind(r.err) = "StateError"
            /\ r.st = Chain

(* C15 amended: while an item is sold, every delist and price update by    *)
(* its seller fails with StateError, every purchase fails, with            *)
(* StateError when it pays the recorded price and with ValidationError     *)
(* when it pays another amount, and none of them changes anything; the     *)
(* sold flag is cleared only by a listMarketItem of the token's holder.    *)
C15_SoldRefusesUntilRelist ==
    /\ [](\A c \in AfterSaleCalls :
            LET r == Outcome(c, NoHook)
                wrongAmount == /\ c.op = "createMarketSale"
                               /\ c.value # idToMarketItem[c.tokenId].price
            IN  /\ r.st = Chain
                /\ ErrKind(r.err) = IF wrongAmount THEN "ValidationError"
                                                   ELSE "StateError")
    /\ [][\A t \in TokenIds :
            (idToMarketItem[t].sold /\ ~idToMarketItem'[t].sold) =>
                /\ ListCommitted
                /\ last'.call.tokenId = t
                /\ last'.call.sender = idToMarketItem[t].owner
                /\ last'.call.sender = owners[t]]_vars

(* A sale has just happened; the seller's delist and price update, a       *)
(* purchase at the recorded price and one at another amount are refused.   *)
C15_Witness ==
    /\ last.call.op = "createMarketSale"
    /\ idToMarketItem[last.call.tokenId].sold
    /\ \E c \in AfterSaleCalls :
          c.op = "delistMarketItem" /\ Outcome(c, NoHook).err = E_NOT_LISTED
    /\ \E c \in AfterSaleCalls :
          /\ c.op = "updateMarketItemPrice" /\ c.price > 0
          /\ Outcome(c, NoHook).err = E_NOT_LISTED
    /\ \E c \in AfterSaleCalls :
          /\ c.op = "createMarketSale"
          /\ c.sender # idToMarketItem[c.tokenId].owner
          /\ Outcome(c, NoHook).err = E_NOT_FOR_SALE
    /\ \E c \in AfterSaleCalls :
          c.op = "createMarketSale" /\ Outcome(c, NoHook).err = E_ASKING

(* The step committed a createToken or a listMarketItem transaction. *)
ListingCommitted == MintCommitted \/ ListCommitted

(* C16 as stated: each successful createToken or listMarketItem raises the *)
(* contract's balance by exactly the listing fee in force and leaves the   *)
(* platform owner's balance as it was.                                     *)
C16_FeePooledOwnerUnchanged ==
    [][ListingCommitted =>
        /\ balance'[THIS] = balance[THIS] + listingPrice
        /\ balance'[contractOwner] = balance[contractOwner]]_vars

(* C16 amended: each successful createToken or listMarketItem raises the   *)
(* contract's balance by exactly the listing fee in force, which the       *)
(* caller pays, and credits no account: every account's balance is         *)
(* unchanged except the caller's, which falls by the fee, the platform     *)
(* owner's too when the platform owner is the caller.                      *)
C16_FeePooledNotForwarded ==
    [][ListingCommitted =>
        LET c == last'.call
        IN  /\ c.value = listingPrice
            /\ listingPrice' = listingPrice
            /\ balance'[THIS] = balance[THIS] + listingPrice
            /\ \A a \in Accounts :
                  balance'[a] = balance[a]
                      - (IF a = c.sender THEN listingPrice ELSE 0)]_vars

(* A mint and a later relist have each left their fee in the contract. *)
C16_Witness ==
    /\ last.call.op = "listMarketItem"
    /\ last.call.sender # contractOwner
    /\ listingPrice > 0
    /\ balance[THIS] = 2 * listingPrice
    /\ balance[contractOwner] = InitialFunds

(* C17: in every reachable state fetchMarketItems() completes and returns  *)
(* exactly the records with owner = contract and listed = TRUE, each once, *)
(* in ascending tokenId order, and no zero-valued entry.                   *)
C17_FetchListedExact ==
    LET r == fetchMarketItems(Chain)
        ids == {t \in TokenIds : /\ idToMarketItem[t].owner = THIS
                                 /\ idToMarketItem[t].listed}
        expected == [k \in 1..Cardinality(ids) |->
                        idToMarketItem[CHOOSE t \in ids :
                            Cardinality({u \in ids : u < t}) = k - 1]]
    IN  /\ r.err = OK
        /\ r.items = expected

AdminCalls ==
    UpdateListingPriceCalls \cup WithdrawCalls \cup EmergencyTransferCalls

(* C19: updateListingPrice, withdraw and emergencyTransfer called by any   *)
(* account other than the platform owner fail with AuthorizationError and  *)
(* leave the listing fee, every balance, the records and the token owners  *)
(* unchanged.                                                              *)
C19_AdminOnlyOwner ==
    \A c \in AdminCalls : \A h \in HookChoices(c) :
        LET r == Outcome(c, h)
        IN  c.sender # contractOwner =>
                /\ ErrKind(r.err) = "AuthorizationError"
                /\ r.st = Chain

(* The contract holds fees and a token, so each admin call would succeed   *)
(* for the platform owner, and each is refused to another account.         *)
C19_Witness ==
    /\ balance[THIS] > 0
    /\ \E op \in {"updateListingPrice", "withdraw", "emergencyTransfer"} :
          last.call.op = op
    /\ \A op \in {"updateListingPrice", "withdraw", "emergencyTransfer"} :
          \E c \in AdminCalls, d \in AdminCalls :
              /\ c.op = op /\ d.op = op
              /\ c.sender \in Users /\ d.sender = contractOwner
              /\ d = [c EXCEPT !.sender = contractOwner]
              /\ Outcome(c, NoHook).err = E_OWNABLE
              /\ Outcome(d, NoHook).err = OK

(* C20 as stated: getListingPrice called by an account other than the      *)
(* platform owner fails with AuthorizationError.                           *)
C20_GetFeeOnlyOwner ==
    \A a \in Accounts \ {contractOwner} :
        ErrKind(getListingPrice(Chain, a).err) = "AuthorizationError"

(* C20 amended: getListingPrice requires no authorization: called by any   *)
(* account it succeeds and returns the listing fee in force, which is the  *)
(* one amount that account can attach to a createToken for it to succeed.  *)
C20_GetFeeOpenToAll ==
    \A a \in Accounts :
        LET r == getListingPrice(Chain, a)
        IN  /\ r.err = OK
            /\ r.ret = listingPrice
            /\ \A c \in CreateTokenCalls :
                  (c.sender = a /\ c.price > 0 /\ Affordable(c)) =>
                      (Outcome(c, NoHook).err = OK <=> c.value = r.ret)

(* The platform owner has changed the fee, and a user reads the new fee    *)
(* and can mint with it.                                                   *)
C20_Witness ==
    /\ last.call.op = "updateListingPrice"
    /\ listingPrice # InitialListingPrice
    /\ \E a \in Users :
          /\ getListingPrice(Chain, a).err = OK
          /\ getListingPrice(Chain, a).ret = last.call.price
          /\ \E c \in CreateTokenCalls :
                /\ c.sender = a
                /\ c.value = getListingPrice(Chain, a).ret
                /\ Outcome(c, NoHook).err = OK

(* The step committed a withdraw transaction. *)
WithdrawCommitted ==
    /\ txCount' = txCount + 1
    /\ last'.call.op = "withdraw"

(* C21: withdraw by the platform owner fails when the contract's balance   *)
(* is zero; otherwise it pays the whole balance to the platform owner,     *)
(* leaves the contract's balance at exactly zero and changes no record, no *)
(* token owner and neither counter.                                        *)
C21_WithdrawSweepsAll ==
    /\ [](balance[THIS] = 0 =>
            \A c \in WithdrawCalls : \A h \in HookChoices(c) :
                Outcome(c, h).err # OK)
    /\ [][WithdrawCommitted =>
            /\ balance[THIS] > 0
            /\ balance'[THIS] = 0
            /\ balance'[contractOwner] = balance[contractOwner] + balance[THIS]
            /\ idToMarketItem' = idToMarketItem
            /\ owners' = owners
            /\ tokenIds' = tokenIds
            /\ itemsSold' = itemsSold]_vars

(* The emergencyTransfer calls of the platform owner. *)
OwnerRecoverCalls == {c \in EmergencyTransferCalls : c.sender = contractOwner}

(* What a successful emergencyTransfer leaves: the token with `to`, the    *)
(* record of tokenId zero-valued, everything else as it was.               *)
RecoverEffect(c, r) ==
    /\ r.st.owners = [owners EXCEPT ![c.tokenId] = c.to]
    /\ r.st.idToMarketItem = [idToMarketItem EXCEPT ![c.tokenId] = ZeroItem]
    /\ r.st.balance = balance
    /\ r.st.tokenIds = tokenIds
    /\ r.st.itemsSold = itemsSold
    /\ r.st.listingPrice = listingPrice
    /\ r.st.events = events

(* C22 as stated: emergencyTransfer(tokenId, to) by the platform owner     *)
(* succeeds if and only if the contract holds the token, whatever `to`     *)
(* is; on success the token's owner is `to`, the record of tokenId is      *)
(* zero-valued, no funds move and the counters are unchanged.              *)
C22_RecoverIffEscrowed ==
    \A c \in OwnerRecoverCalls :
        LET r == Outcome(c, NoHook)
        IN  /\ r.err = OK <=> owners[c.tokenId] = THIS
            /\ r.err = OK => RecoverEffect(c, r)

(* C22 amended: emergencyTransfer(tokenId, to) by the platform owner       *)
(* succeeds if and only if the contract holds the token and `to` is not    *)
(* the zero address; on success the token's owner is `to`, the record of   *)
(* tokenId is zero-valued whatever it was, no funds move and the counters  *)
(* are unchanged; a failed call changes nothing.                           *)
C22_RecoverIffEscrowedToNonZero ==
    \A c \in OwnerRecoverCalls :
        LET r == Outcome(c, NoHook)
        IN  /\ r.err = OK <=> (owners[c.tokenId] = THIS /\ c.to # ZERO)
            /\ r.err = OK => RecoverEffect(c, r)
            /\ r.err # OK => r.st = Chain

(* A listed token has been recovered to a user, and another token the      *)
(* contract still holds can be recovered to a user but not to 0x0.         *)
C22_Witness ==
    /\ last.call.op = "emergencyTransfer"
    /\ last.call.to \in Users
    /\ owners[last.call.tokenId] = last.call.to
    /\ idToMarketItem[last.call.tokenId] = ZeroItem
    /\ \E c \in OwnerRecoverCalls, d \in OwnerRecoverCalls :
          /\ c.tokenId = d.tokenId
          /\ idToMarketItem[c.tokenId].listed
          /\ c.to \in Users /\ Outcome(c, NoHook).err = OK
          /\ d.to = ZERO /\ Outcome(d, NoHook).err = E_INVALID_RECEIVER

(* The buy and delist requests that the current listing of token t would   *)
(* accept: each would succeed if it were the next transaction.             *)
CompetingCalls(t) ==
    {c \in CreateMarketSaleCalls \cup DelistMarketItemCalls :
        /\ c.tokenId = t
        /\ Affordable(c)
        /\ Outcome(c, NoHook).err = OK}

(* C23: transactions run one after another, so of any two buy or delist    *)
(* requests that the same listing of a token would accept, the one that    *)
(* runs second, once the first has succeeded, fails with StateError and    *)
(* changes nothing: the token, the records and every balance, the losing   *)
(* buyer's included, stay as the first left them.                          *)
C23_OneWinnerPerListing ==
    \A t \in TokenIds :
        \A c1 \in CompetingCalls(t), c2 \in CompetingCalls(t) :
            \A h \in HookChoices(c1) :
                LET r1 == Outcome(c1, h)
                    r2 == Exec(r1.st, c2, NoHook)
                IN  (r1.err = OK /\ c2.value <= r1.st.balance[c2.sender]) =>
                        /\ ErrKind(r2.err) = "StateError"
                        /\ r2.st = r1.st

(* A listing that two buyers and its seller could each take: whichever     *)
(* goes first, the others are refused.                                     *)
C23_Witness ==
    \E t \in TokenIds :
        \E c1 \in CompetingCalls(t), c2 \in CompetingCalls(t),
           c3 \in CompetingCalls(t) :
            /\ c1.op = "createMarketSale" /\ c2.op = "createMarketSale"
            /\ c1.sender # c2.sender
            /\ c3.op = "delistMarketItem"
            /\ Exec(Outcome(c1, NoHook).st, c2, NoHook).err = E_NOT_FOR_SALE
            /\ Exec(Outcome(c1, NoHook).st, c3, NoHook).err = E_NOT_LISTED
            /\ Exec(Outcome(c3, NoHook).st, c1, NoHook).err = E_NOT_FOR_SALE
            /\ Exec(Outcome(c3, NoHook).st, c3, NoHook).err = E_NOT_LISTED

(* The lifecycle state of a MarketItem record. *)
ItemState(item) ==
    CASE item = ZeroItem -> "absent"
      [] item.listed /\ ~item.sold -> "Listed"
      [] item.sold /\ ~item.listed -> "Sold"
      [] ~item.sold /\ ~item.listed -> "Delisted"
      [] OTHER -> "invalid"

(* The function whose execution, as the transaction or as the call nested  *)
(* in it, the step committed.                                              *)
Ran(op) ==
    /\ txCount' = txCount + 1
    /\ \/ last'.call.op = op
       \/ \E i \in DOMAIN last'.nested :
             last'.nested[i].op = op /\ last'.nested[i].err = OK

C25_UpdatePriceOnlyPrice ==
    \A c \in UpdateMarketItemPriceCalls :
        LET r == Outcome(c, NoHook)
            item == idToMarketItem[c.tokenId]
        IN  /\ r.err = OK <=> /\ item.seller = c.sender
                              /\ item.listed
                              /\ ~item.sold
                              /\ c.price > 0
            /\ r.err # OK => r.st = Chain
            /\ r.err = OK =>
                  /\ r.st = [Chain EXCEPT
                                !.idToMarketItem[c.tokenId].price = c.price]
                  /\ owners[c.tokenId] = THIS
                  /\ \A d \in CreateMarketSaleCalls :
                        (d.tokenId = c.tokenId /\ Affordable(d)) =>
                            LET r2 == Exec(r.st, d, NoHook)
                            IN  /\ r2.err = OK => d.value = c.price
                                /\ d.value # c.price => r2.err = E_ASKING

(* The seller has changed the price of a listed item: a purchase at the    *)
(* new price succeeds and one at the old price is refused.                 *)
C25_Witness ==
    /\ last.call.op = "updateMarketItemPrice"
    /\ idToMarketItem[last.call.tokenId].price = last.call.price
    /\ \E i \in DOMAIN events :
          /\ events[i].tokenId = last.call.tokenId
          /\ events[i].type = "MarketItemCreated"
          /\ events[i].price # last.call.price
          /\ \E d \in CreateMarketSaleCalls :
                /\ d.tokenId = last.call.tokenId /\ Affordable(d)
                /\ d.value = events[i].price
                /\ Outcome(d, NoHook).err = E_ASKING
    /\ \E d \in CreateMarketSaleCalls :
          /\ d.tokenId = last.call.tokenId /\ Affordable(d)
          /\ d.value = last.call.price
          /\ Outcome(d, NoHook).err = OK

(* The MarketItemSold events of a log, in order: one per sale. *)
SoldEvents(log) == SelectSeq(log, LAMBDA e : e.type = "MarketItemSold")

(* C26: _tokenIds and _itemsSold start at zero (each equals the number of  *)
(* mints, of sales, logged so far) and never decrease; _tokenIds changes   *)
(* only by +1 and only where createToken ran successfully, _itemsSold only *)
(* by +1 and only where createMarketSale ran successfully; every           *)
(* successful createToken and createMarketSale does add one, and no other  *)
(* function changes either counter.                                        *)
C26_CountersMonotone ==
    /\ [](/\ tokenIds = Len(CreatedEvents(events))
          /\ itemsSold = Len(SoldEvents(events)))
    /\ [][/\ tokenIds' >= tokenIds
          /\ itemsSold' >= itemsSold
          /\ tokenIds' # tokenIds =>
                tokenIds' = tokenIds + 1 /\ Ran("createToken")
          /\ itemsSold' # itemsSold =>
                itemsSold' = itemsSold + 1 /\ Ran("createMarketSale")
          /\ MintCommitted => tokenIds' = tokenIds + 1
          /\ SaleCommitted => itemsSold' = itemsSold + 1
          /\ (~Ran("createToken") /\ ~Ran("createMarketSale")) =>
                (tokenIds' = tokenIds /\ itemsSold' = itemsSold)]_vars

(* A mint and a sale have happened, and then an operation that is neither. *)
C26_Witness ==
    /\ tokenIds = 1
    /\ itemsSold = 1
    /\ last.call.op \notin {"createToken", "createMarketSale"}
    /\ last.nested = << >>

(* The step committed a delistMarketItem transaction. *)
DelistCommitted ==
    /\ txCount' = txCount + 1
    /\ last'.call.op = "delistMarketItem"

(* C27: the event log only grows at its end; a successful createToken      *)
(* appends exactly MarketItemCreated{tokenId, seller, contract, price,     *)
(* FALSE}, a successful listMarketItem MarketItemListed{tokenId, seller,   *)
(* price}, a successful delistMarketItem MarketItemDelisted{tokenId,       *)
(* seller}, a successful createMarketSale MarketItemSold{tokenId, seller,  *)
(* buyer, price paid}, each with the values the call committed; a call     *)
(* that fails appends nothing.                                             *)
C27_EventLog ==
    /\ [](\A c \in Calls : \A h \in HookChoices(c) :
            LET r == Outcome(c, h)
            IN  (Affordable(c) /\ r.err # OK) => r.st.events = events)
    /\ [][LET c == last'.call
              item == idToMarketItem'[c.tokenId]
          IN  /\ Len(events') \in {Len(events), Len(events) + 1}
              /\ SubSeq(events', 1, Len(events)) = events
              /\ MintCommitted =>
                    /\ events' = Append(events,
                          [type |-> "MarketItemCreated", tokenId |-> last'.ret,
                           seller |-> c.sender, owner |-> THIS,
                           price |-> c.price, sold |-> FALSE])
                    /\ idToMarketItem'[last'.ret] =
                          MarketItem(last'.ret, c.sender, THIS, c.price,
                                     FALSE, TRUE)
              /\ ListCommitted =>
                    /\ events' = Append(events,
                          [type |-> "MarketItemListed", tokenId |-> c.tokenId,
                           seller |-> c.sender, price |-> c.price])
                    /\ item.seller = c.sender /\ item.price = c.price
              /\ DelistCommitted =>
                    /\ events' = Append(events,
                          [type |-> "MarketItemDelisted",
                           tokenId |-> c.tokenId, seller |-> c.sender])
                    /\ item.seller = c.sender
              /\ SaleCommitted =>
                    /\ events' = Append(events,
                          [type |-> "MarketItemSold", tokenId |-> c.tokenId,
                           seller |-> item.seller, buyer |-> c.sender,
                           price |-> c.value])
                    /\ item.owner = c.sender /\ item.price = c.value]_vars

(* A mint, a sale and a relist have been logged, in that order. *)
C27_Witness ==
    /\ Len(events) = 3
    /\ events[1].type = "MarketItemCreated"
    /\ events[2].type = "MarketItemSold"
    /\ events[3].type = "MarketItemListed"
    /\ events[2].buyer = events[3].seller
    /\ last.call.op = "listMarketItem"

(* The purchases the records allow: a listed, unsold item, bought by an    *)
(* account other than its seller that pays exactly its price.              *)
ValidBuys ==
    {c \in CreateMarketSaleCalls :
        /\ Affordable(c)
        /\ SaleChecks(Chain, c.sender, c.value, c.tokenId) = OK}

(* C28: in every reachable state, also after a withdraw or a change of the *)
(* listing fee, the contract's balance covers the listing fee for every    *)
(* listed item, and every purchase of a listed, unsold item by a           *)
(* non-seller paying exactly the price succeeds.                           *)
C28_PoolCoversListedFees ==
    /\ balance[THIS] >= listingPrice *
            Cardinality({t \in TokenIds : idToMarketItem[t].listed})
    /\ \A c \in ValidBuys : Outcome(c, NoHook).err = OK

(* Token t is in escrow under a listing. *)
Escrowed(t) == owners[t] = THIS /\ idToMarketItem[t].listed

(* The step took token t out of the contract or removed its record. *)
LeftEscrow(t) == owners'[t] # THIS \/ idToMarketItem'[t] = ZeroItem

(* The step was the seller's delist of t, which returned t to the seller. *)
BySellerDelist(t) ==
    /\ Ran("delistMarketItem")
    /\ last'.call.op = "delistMarketItem" =>
          /\ last'.call.tokenId = t
          /\ last'.call.sender = idToMarketItem[t].seller
    /\ owners'[t] = idToMarketItem[t].seller
    /\ idToMarketItem'[t] = [idToMarketItem[t] EXCEPT
                                !.listed = FALSE,
                                !.owner = idToMarketItem[t].seller]

(* The step was a purchase of t that paid the seller the recorded price. *)
ByPaidSale(t) ==
    LET seller == idToMarketItem[t].seller
    IN  /\ SaleCommitted
        /\ last'.call.tokenId = t
        /\ last'.call.value = idToMarketItem[t].price
        /\ owners'[t] = last'.call.sender
        /\ balance'[seller] = balance[seller] + idToMarketItem[t].price
               + (IF seller = contractOwner THEN listingPrice ELSE 0)

(* The step was the platform owner's emergencyTransfer of t. *)
ByOwnerRecovery(t) ==
    /\ txCount' = txCount + 1
    /\ last'.call.op = "emergencyTransfer"
    /\ last'.call.sender = contractOwner
    /\ last'.call.tokenId = t
    /\ owners'[t] = last'.call.to
    /\ idToMarketItem'[t] = ZeroItem

(* C29 as stated: a listed token leaves the contract, or loses its record, *)
(* only through its seller's own delist, which returns it to the seller,   *)
(* or through a purchase that pays the seller the recorded price.          *)
C29_EscrowLeavesBySellerOrSale ==
    [][\A t \in TokenIds :
        (Escrowed(t) /\ LeftEscrow(t)) =>
            BySellerDelist(t) \/ ByPaidSale(t)]_vars

(* C29 amended: a listed token leaves the contract, or loses its record,   *)
(* only through its seller's own delist, which returns it to the seller,   *)
(* through a purchase that pays the seller the recorded price, or through  *)
(* the platform owner's emergencyTransfer, which sends it to an address of *)
(* the platform owner's choice and deletes its record; no call by any      *)
(* other party does either.                                                *)
C29_EscrowLeavesBySellerSaleOrAdmin ==
    [][\A t \in TokenIds :
        (Escrowed(t) /\ LeftEscrow(t)) =>
            BySellerDelist(t) \/ ByPaidSale(t) \/ ByOwnerRecovery(t)]_vars

(* The platform owner has sent a user's listed token to another user. *)
C29_Witness ==
    /\ last.call.op = "emergencyTransfer"
    /\ last.call.to \in Users
    /\ owners[last.call.tokenId] = last.call.to
    /\ \E i \in DOMAIN events :
          /\ events[i].type = "MarketItemCreated"
          /\ events[i].tokenId = last.call.tokenId
          /\ events[i].seller \in Users \ {last.call.to}
    /\ \A i \in DOMAIN events :
          events[i].type \notin {"MarketItemSold", "MarketItemDelisted"}

(* Listings created so far minus sales so far, from the event log. *)
OpenFees(log) ==
    Len(CreatedEvents(log))
    + Len(SelectSeq(log, LAMBDA e : e.type = "MarketItemListed"))
    - Len(SoldEvents(log))

(* The contract's balance is the fee times (listings - sales), and covers  *)
(* the fee for every listed item.                                          *)
PoolIsOpenFees ==
    /\ balance[THIS] = listingPrice * OpenFees(events)
    /\ balance[THIS] >= listingPrice *
            Cardinality({t \in TokenIds : idToMarketItem[t].listed})

(* C30: as long as the listing fee is not changed and withdraw is not      *)
(* called, the contract's balance equals fee x (successful createToken and *)
(* listMarketItem calls - successful createMarketSale calls), which is at  *)
(* least fee x (listed items), and no valid purchase aborts for lack of    *)
(* balance.  Stated step by step: it holds at construction, every step     *)
(* that neither changes the fee nor withdraws keeps it, and where it holds *)
(* every valid purchase succeeds.                                          *)
C30_PoolWithoutAdmin ==
    /\ [](txCount = 0 => PoolIsOpenFees)
    /\ [](PoolIsOpenFees => \A c \in ValidBuys : Outcome(c, NoHook).err = OK)
    /\ [][(/\ PoolIsOpenFees
           /\ listingPrice' = listingPrice
           /\ ~Ran("withdraw")) => PoolIsOpenFees']_vars

(* A mint, a sale and a relist at the initial fee, nothing else: the       *)
(* contract holds one fee for two listings less one sale.                  *)
C30_Witness ==
    /\ txCount = 3
    /\ Len(events) = 3
    /\ OpenFees(events) = 1
    /\ Len(SoldEvents(events)) = 1
    /\ listingPrice = InitialListingPrice
    /\ balance[THIS] = InitialListingPrice
    /\ ValidBuys # {}

(* C31: after any sequence of calls to the contract, every token whose     *)
(* MarketItem record exists is owned, in the ERC721 owner table, by the    *)
(* address in the record's owner field.                                    *)
C31_RegistryOwnerIsRecordOwner ==
    \A t \in TokenIds :
        idToMarketItem[t] # ZeroItem => owners[t] = idToMarketItem[t].owner

(* One token has been bought and is held by its buyer, another is listed   *)
(* and held by the contract.                                               *)
C31_Witness ==
    /\ \E t \in TokenIds :
          /\ idToMarketItem[t].sold
          /\ idToMarketItem[t].owner \in Users
          /\ idToMarketItem[t].owner # idToMarketItem[t].seller
    /\ \E t \in TokenIds :
          idToMarketItem[t].listed /\ idToMarketItem[t].owner = THIS

(* C32: funds are conserved: the contract's balance plus the balances of   *)
(* all accounts is the same in every reachable state.  The contract's      *)
(* balance is never negative, is zero at construction and changes in each  *)
(* transaction by exactly the listing fees paid in by the mints and        *)
(* listings of the transaction, less the platform fee paid out if it is a  *)
(* sale, less the amount withdrawn if it is a withdraw; so it always       *)
(* equals total fees in less total platform fees out less total withdrawn. *)
C32_FundsConserved ==
    /\ [](/\ DOMAIN balance = Addresses
          /\ balance[THIS] + balance[contractOwner]
                + balance["alice"] + balance["bob"] = 3 * InitialFunds
          /\ balance[THIS] >= 0
          /\ (txCount = 0 => balance[THIS] = 0))
    /\ [][LET Total(b) == b[THIS] + b[contractOwner] + b["alice"] + b["bob"]
              ranOk(op) ==
                  {i \in DOMAIN last'.nested :
                      last'.nested[i].op = op /\ last'.nested[i].err = OK}
              listings == (IF ListingCommitted THEN 1 ELSE 0)
                          + Cardinality(ranOk("createToken"))
                          + Cardinality(ranOk("listMarketItem"))
              feesIn == listings * listingPrice
              feeOut == IF SaleCommitted THEN listingPrice ELSE 0
              withdrawn == IF WithdrawCommitted THEN balance[THIS] ELSE 0
          IN  /\ Total(balance') = Total(balance)
              /\ (txCount' = txCount + 1 =>
                    balance'[THIS] =
                        balance[THIS] + feesIn - feeOut - withdrawn)
              /\ (txCount' = txCount =>
                    balance'[THIS] = balance[THIS])]_vars

(* A fee was paid in at a mint, paid out to the platform owner at the sale *)
(* and a second fee was then swept by a withdraw: four transactions that   *)
(* moved funds between the buyer, the seller, the platform owner and the   *)
(* contract.                                                               *)
C32_Witness ==
    /\ txCount = 4
    /\ last.call.op = "withdraw"
    /\ Len(SoldEvents(events)) = 1
    /\ balance[THIS] = 0
    /\ balance[contractOwner] > InitialFunds
    /\ \E a \in Users : balance[a] < InitialFunds
    /\ \E a \in Users : balance[a] > InitialFunds

(* C33: the event log alone determines the store: for every token, the     *)
(* listed and sold flags, the seller and the price obtained by replaying   *)
(* the token's MarketItemCreated, MarketItemListed, MarketItemDelisted and *)
(* MarketItemSold events in order equal those of the token's current       *)
(* record, and a token without events has no record.  In the replay a      *)
(* Created or Listed event makes the item listed and unsold at the event's *)
(* seller and price, a Delisted event clears listed, a Sold event sets     *)
(* sold and clears listed.                                                 *)
C33_ReplayEqualsStore ==
    \A t \in TokenIds :
        LET log == SelectSeq(events, LAMBDA e : e.tokenId = t)
            priced == SelectSeq(log, LAMBDA e : e.type # "MarketItemDelisted")
            final == log[Len(log)]
            item == idToMarketItem[t]
        IN  IF log = << >> THEN item = ZeroItem
            ELSE /\ item.listed =
                      (final.type \in {"MarketItemCreated", "MarketItemListed"})
                 /\ item.sold = (final.type = "MarketItemSold")
                 /\ item.seller = final.seller
                 /\ item.price = priced[Len(priced)].price

====
